---- MODULE Spec2Model ----
(***************************************************************************)
(* The per-user request throttle of the tax assistant bot                  *)
(* (src/utils/rate_limiter.py, class RateLimiter) as a state machine.      *)
(*                                                                         *)
(* Time is time.time() in whole seconds.  A ledger is the deque of one     *)
(* (user id, request type) pair; user_requests is the nested defaultdict,  *)
(* modelled as a function whose domain is the set of keys present.         *)
(***************************************************************************)
EXTENDS Integers, Sequences, FiniteSets, Bags, TLC

VARIABLES
    user_requests,  \* RateLimiter.user_requests: user id -> request type -> deque
    clock,          \* the value time.time() returns
    last,           \* the last call made on the limiter: its arguments, the deque
                    \* it found and what it returned
    burst,          \* the ledger a caller is hammering with check_rate_limit, and
                    \* the number of its calls in a row at the current instant
    pc,             \* thread -> position inside check_rate_limit
    current_time,   \* thread -> the local current_time of its call
    result,         \* thread -> what its call returned
    handler,        \* the bag of handler tasks: the update each serves, its
                    \* position in handle_text_query or handle_document, and
                    \* what it has done
    gc,             \* the cleanup_old_data call: its position and its locals
    user_queue      \* thread -> the deque its local user_queue refers to (0: the
                    \* one in the registry; n: the n-th deque cleanup_old_data
                    \* has taken out of the registry), and those deques

vars == <<user_requests, clock, last, burst, pc, current_time, result, handler, gc, user_queue>>

\* The last call on the limiter was op(u, c).
LastIs(op, u, c) == last.op = op /\ last.user = u /\ last.request_type = c

(***************************************************************************)
(* Bounds of the model.                                                    *)
(***************************************************************************)
MaxTracked == 1       \* background traffic stops once more than this many stamps are held
MaxBurst == 15        \* the burst counter saturates here
NumThreads == 4       \* concurrent check_rate_limit calls in SpecThreads
NumHandlers == 4      \* handler tasks outstanding on the event loop in SpecHandlers
NumUpdates == 3       \* updates the bot receives in SpecBot
NumCallers == 3       \* threads that call check_rate_limit beside cleanup_old_data

(***************************************************************************)
(* Program constants (RateLimiter.__init__, self.limits).                  *)
(***************************************************************************)
TextMaxRequests == 10
TextTimeWindow == 3600
DocMaxRequests == 3
DocTimeWindow == 86400
GlobalStatsHorizon == 86400
SecondsPerHour == 3600

Users == {"A", "B"}

limits ==
    [text_query        |-> [max_requests |-> TextMaxRequests, time_window |-> TextTimeWindow],
     document_analysis |-> [max_requests |-> DocMaxRequests,  time_window |-> DocTimeWindow]]

\* The request types callers pass: the two of the policy table and one that
\* is not in it.
RequestTypes == {"text_query", "document_analysis", "unknown_type"}

\* cleanup_old_data's argument: the default, and a horizon shorter than the
\* document window.
MaxAgeHours == {1, 24}

\* The instants at which the limiter is called: a start, one second later, and
\* the instants at which a stamp of the start is just older than each window
\* (so a stamp of second 1 is then exactly one window old).
Instants == {0, 1, TextTimeWindow + 1, DocTimeWindow + 1}

Threads == 1..NumThreads
Callers == 1..NumCallers

(***************************************************************************)
(* Helpers for the nested defaultdict.                                     *)
(***************************************************************************)
\* defaultdict access self.user_requests[user_id][request_type]: the missing
\* keys are created, the user with an empty inner dict and the ledger empty.
Touch(reg, u, c) ==
    IF u \in DOMAIN reg
    THEN IF c \in DOMAIN reg[u]
         THEN reg
         ELSE [reg EXCEPT ![u] = @ @@ (c :> <<>>)]
    ELSE reg @@ (u :> (c :> <<>>))

\* The deque of (u, c), empty when the key is absent.
Ledger(reg, u, c) ==
    IF u \in DOMAIN reg /\ c \in DOMAIN reg[u] THEN reg[u][c] ELSE <<>>

\* The loop of line 58 with >= for >: a stamp exactly one window old goes too.
RECURSIVE PruneOldInclusive(_, _, _)
PruneOldInclusive(q, now, horizon) ==
    IF q # <<>> /\ now - Head(q) >= horizon
    THEN PruneOldInclusive(Tail(q), now, horizon)
    ELSE q

\* while user_queue and current_time - user_queue[0] > horizon: popleft()
RECURSIVE PruneOld(_, _, _)
PruneOld(q, now, horizon) ==
    IF q # <<>> /\ now - Head(q) > horizon
    THEN PruneOld(Tail(q), now, horizon)
    ELSE q

\* datetime.now() and datetime.fromtimestamp(t): a naive local datetime,
\* kept as the instant it denotes.
DatetimeFromTimestamp(t) == [datetime |-> t]

TotalTracked(reg) ==
    LET RECURSIVE SumU(_)
        SumU(S) ==
            IF S = {} THEN 0
            ELSE LET u == CHOOSE x \in S : TRUE
                     RECURSIVE SumC(_)
                     SumC(T) ==
                         IF T = {} THEN 0
                         ELSE LET c == CHOOSE y \in T : TRUE
                              IN Len(reg[u][c]) + SumC(T \ {c})
                 IN SumC(DOMAIN reg[u]) + SumU(S \ {u})
    IN SumU(DOMAIN reg)

(***************************************************************************)
(* check_rate_limit                                                        *)
(***************************************************************************)
\* Variants of lines 57-70 with a plausible slip each, for the checks below.
AdmitQueueOffByOne(q, now, max_requests, time_window) ==
    LET pruned == PruneOld(q, now, time_window)
    IN IF Len(pruned) > max_requests
       THEN [queue |-> pruned, ret |-> FALSE]
       ELSE [queue |-> Append(pruned, now), ret |-> TRUE]

AdmitQueuePrepends(q, now, max_requests, time_window) ==
    LET pruned == PruneOld(q, now, time_window)
    IN IF Len(pruned) >= max_requests
       THEN [queue |-> pruned, ret |-> FALSE]
       ELSE [queue |-> <<now>> \o pruned, ret |-> TRUE]

AdmitQueueNoPrune(q, now, max_requests, time_window) ==
    IF Len(q) >= max_requests
    THEN [queue |-> q, ret |-> FALSE]
    ELSE [queue |-> Append(q, now), ret |-> TRUE]

AdmitQueueCountsDenied(q, now, max_requests, time_window) ==
    LET pruned == PruneOld(q, now, time_window)
    IN IF Len(pruned) >= max_requests
       THEN [queue |-> Append(Tail(pruned), now), ret |-> FALSE]
       ELSE [queue |-> Append(pruned, now), ret |-> TRUE]

AdmitQueueResetsOnDeny(q, now, max_requests, time_window) ==
    LET pruned == PruneOld(q, now, time_window)
    IN IF Len(pruned) >= max_requests
       THEN [queue |-> <<>>, ret |-> FALSE]
       ELSE [queue |-> Append(pruned, now), ret |-> TRUE]

\* Lines 57-70 on the deque: prune, then deny or append.
AdmitQueue(q, now, max_requests, time_window) ==
    LET pruned == PruneOld(q, now, time_window)
    IN IF Len(pruned) >= max_requests
       THEN [queue |-> pruned, ret |-> FALSE]
       ELSE [queue |-> Append(pruned, now), ret |-> TRUE]

\* check_rate_limit with the deque keyed by request type alone: the stamp of
\* an admitted call lands in that type's deque of every user.
CheckRateLimitPerType(reg, u, c, now) ==
    IF c \notin DOMAIN limits
    THEN [reg |-> reg, ret |-> TRUE]
    ELSE LET reg1 == Touch(reg, u, c)
             r == AdmitQueue(reg1[u][c], now, limits[c].max_requests, limits[c].time_window)
         IN [reg |-> [v \in DOMAIN reg1 |->
                        IF v = u THEN [reg1[v] EXCEPT ![c] = r.queue]
                        ELSE IF r.ret /\ c \in DOMAIN reg1[v]
                             THEN [reg1[v] EXCEPT ![c] = Append(@, now)]
                             ELSE reg1[v]],
             ret |-> r.ret]

\* check_rate_limit that looks the deque up before it looks at the request
\* type: an unknown type gets a user entry and a deque.
CheckRateLimitTracksUnknown(reg, u, c, now) ==
    IF c \notin DOMAIN limits
    THEN [reg |-> Touch(reg, u, c), ret |-> TRUE]
    ELSE LET reg1 == Touch(reg, u, c)
             r == AdmitQueue(reg1[u][c], now, limits[c].max_requests, limits[c].time_window)
         IN [reg |-> [reg1 EXCEPT ![u][c] = r.queue], ret |-> r.ret]

\* The registry after check_rate_limit(u, c) and the value returned.
CheckRateLimit(reg, u, c, now) ==
    IF c \notin DOMAIN limits
    THEN [reg |-> reg, ret |-> TRUE]
    ELSE LET reg1 == Touch(reg, u, c)
             r == AdmitQueue(reg1[u][c], now, limits[c].max_requests, limits[c].time_window)
         IN [reg |-> [reg1 EXCEPT ![u][c] = r.queue], ret |-> r.ret]

NextBurst(u, c) ==
    IF burst.user = u /\ burst.request_type = c
    THEN [burst EXCEPT !.n = IF @ < MaxBurst THEN @ + 1 ELSE @]
    ELSE [user |-> u, request_type |-> c, n |-> 1]

NoBurst == [user |-> "", request_type |-> "", n |-> 0]

check_rate_limit(u, c) ==
    /\ LET r == CheckRateLimit(user_requests, u, c, clock)
       IN /\ user_requests' = r.reg
          /\ last' = [op |-> "check_rate_limit", user |-> u, request_type |-> c,
                      found |-> Ledger(user_requests, u, c), ret |-> r.ret]
    /\ burst' = NextBurst(u, c)
    /\ UNCHANGED <<clock, pc, current_time, result, handler, gc, user_queue>>

(***************************************************************************)
(* get_remaining_requests                                                  *)
(***************************************************************************)
\* Lines 89-93 without the pruning loop.
RemainingQueueNoPrune(q, now, max_requests, time_window) ==
    LET left == max_requests - Len(q)
    IN [queue |-> q, ret |-> IF left > 0 THEN left ELSE 0]

\* Lines 89-93 with >= for > in the loop of line 90.
RemainingQueueInclusive(q, now, max_requests, time_window) ==
    LET pruned == PruneOldInclusive(q, now, time_window)
        left == max_requests - Len(pruned)
    IN [queue |-> pruned, ret |-> IF left > 0 THEN left ELSE 0]

\* Lines 89-93 on the deque: prune, then count what is left of the quota.
RemainingQueue(q, now, max_requests, time_window) ==
    LET pruned == PruneOld(q, now, time_window)
        left == max_requests - Len(pruned)
    IN [queue |-> pruned, ret |-> IF left > 0 THEN left ELSE 0]

GetRemainingRequests(reg, u, c, now) ==
    IF c \notin DOMAIN limits
    THEN [reg |-> reg, ret |-> -1]
    ELSE LET reg1 == Touch(reg, u, c)
             r == RemainingQueue(reg1[u][c], now, limits[c].max_requests, limits[c].time_window)
         IN [reg |-> [reg1 EXCEPT ![u][c] = r.queue], ret |-> r.ret]

get_remaining_requests(u, c) ==
    /\ LET r == GetRemainingRequests(user_requests, u, c, clock)
       IN /\ user_requests' = r.reg
          /\ last' = [op |-> "get_remaining_requests", user |-> u, request_type |-> c,
                      found |-> Ledger(user_requests, u, c), ret |-> r.ret]
    /\ burst' = NoBurst
    /\ UNCHANGED <<clock, pc, current_time, result, handler, gc, user_queue>>

(***************************************************************************)
(* get_reset_time                                                          *)
(***************************************************************************)
\* Lines 110-117: the deque is read as it is; nothing is removed from it.
ResetTimeQueue(q, now, time_window) ==
    IF q = <<>>
    THEN DatetimeFromTimestamp(now)
    ELSE DatetimeFromTimestamp(Head(q) + time_window)

\* get_reset_time that looks the deque up before it looks at the request
\* type: an unknown type gets a user entry and a deque.
GetResetTimeTracksUnknown(reg, u, c, now) ==
    IF c \notin DOMAIN limits
    THEN [reg |-> Touch(reg, u, c), ret |-> DatetimeFromTimestamp(now)]
    ELSE LET reg1 == Touch(reg, u, c)
         IN [reg |-> reg1, ret |-> ResetTimeQueue(reg1[u][c], now, limits[c].time_window)]

GetResetTime(reg, u, c, now) ==
    IF c \notin DOMAIN limits
    THEN [reg |-> reg, ret |-> DatetimeFromTimestamp(now)]
    ELSE LET reg1 == Touch(reg, u, c)
         IN [reg |-> reg1, ret |-> ResetTimeQueue(reg1[u][c], now, limits[c].time_window)]

get_reset_time(u, c) ==
    /\ LET r == GetResetTime(user_requests, u, c, clock)
       IN /\ user_requests' = r.reg
          /\ last' = [op |-> "get_reset_time", user |-> u, request_type |-> c,
                      found |-> Ledger(user_requests, u, c), ret |-> r.ret]
    /\ burst' = NoBurst
    /\ UNCHANGED <<clock, pc, current_time, result, handler, gc, user_queue>>

(***************************************************************************)
(* get_user_stats                                                          *)
(***************************************************************************)
\* The iteration with lines 128 and 129 swapped: get_reset_time reads the
\* deque before get_remaining_requests has pruned it.
UserStatsEntryResetFirst(reg, u, c, now) ==
    LET rst == GetResetTime(reg, u, c, now)
        rem == GetRemainingRequests(rst.reg, u, c, now)
    IN [reg |-> rem.reg,
        ret |-> [limit |-> limits[c].max_requests,
                 remaining |-> rem.ret,
                 used |-> limits[c].max_requests - rem.ret,
                 reset_time |-> rst.ret]]

\* One iteration of the loop over self.limits: get_remaining_requests, then
\* get_reset_time on the registry it leaves.
UserStatsEntry(reg, u, c, now) ==
    LET rem == GetRemainingRequests(reg, u, c, now)
        rst == GetResetTime(rem.reg, u, c, now)
    IN [reg |-> rst.reg,
        ret |-> [limit |-> limits[c].max_requests,
                 remaining |-> rem.ret,
                 used |-> limits[c].max_requests - rem.ret,
                 reset_time |-> rst.ret]]

\* The dict keeps insertion order: text_query first, then document_analysis.
GetUserStats(reg, u, now) ==
    LET t == UserStatsEntry(reg, u, "text_query", now)
        d == UserStatsEntry(t.reg, u, "document_analysis", now)
    IN [reg |-> d.reg,
        ret |-> [text_query |-> t.ret, document_analysis |-> d.ret]]

get_user_stats(u) ==
    /\ LET r == GetUserStats(user_requests, u, clock)
       IN /\ user_requests' = r.reg
          /\ last' = [op |-> "get_user_stats", user |-> u, request_type |-> "", ret |-> r.ret]
    /\ burst' = NoBurst
    /\ UNCHANGED <<clock, pc, current_time, result, handler, gc, user_queue>>

(***************************************************************************)
(* cleanup_old_data                                                        *)
(***************************************************************************)
\* Lines 151-162 without the deletion of the emptied deques.
CleanupUserKeepsEmpty(request_types, now, max_age_seconds) ==
    [c \in DOMAIN request_types |-> PruneOld(request_types[c], now, max_age_seconds)]

\* Lines 151-162 with >= for > in the loop of line 153.
CleanupUserInclusive(request_types, now, max_age_seconds) ==
    LET kept == {c \in DOMAIN request_types :
                    PruneOldInclusive(request_types[c], now, max_age_seconds) # <<>>}
    IN [c \in kept |-> PruneOldInclusive(request_types[c], now, max_age_seconds)]

\* The inner dict of user u after lines 151-162: every deque pruned to the
\* horizon, the empty ones deleted.
CleanupUser(request_types, now, max_age_seconds) ==
    LET kept == {c \in DOMAIN request_types :
                    PruneOld(request_types[c], now, max_age_seconds) # <<>>}
    IN [c \in kept |-> PruneOld(request_types[c], now, max_age_seconds)]

\* cleanup_old_data without its last loop (lines 169-170): the emptied users
\* stay in the registry.
CleanupOldDataKeepsUsers(reg, now, max_age_hours) ==
    LET max_age_seconds == max_age_hours * SecondsPerHour
        users_to_remove == {u \in DOMAIN reg :
                               DOMAIN CleanupUser(reg[u], now, max_age_seconds) = {}}
    IN [reg |-> [u \in DOMAIN reg |-> CleanupUser(reg[u], now, max_age_seconds)],
        logged |-> Cardinality(users_to_remove),
        ret |-> "None"]

\* The function has no return statement: it returns None, and logs the
\* number of users it removed.
CleanupOldData(reg, now, max_age_hours) ==
    LET max_age_seconds == max_age_hours * SecondsPerHour
        users_to_remove == {u \in DOMAIN reg :
                               DOMAIN CleanupUser(reg[u], now, max_age_seconds) = {}}
    IN [reg |-> [u \in DOMAIN reg \ users_to_remove |->
                    CleanupUser(reg[u], now, max_age_seconds)],
        logged |-> Cardinality(users_to_remove),
        ret |-> "None"]

cleanup_old_data(max_age_hours) ==
    /\ LET r == CleanupOldData(user_requests, clock, max_age_hours)
       IN /\ user_requests' = r.reg
          /\ last' = [op |-> "cleanup_old_data", user |-> "", request_type |-> "",
                      ret |-> r.ret, logged |-> r.logged, max_age_hours |-> max_age_hours]
    /\ burst' = NoBurst
    /\ UNCHANGED <<clock, pc, current_time, result, handler, gc, user_queue>>

(***************************************************************************)
(* get_global_stats                                                        *)
(***************************************************************************)
\* Line 193 without its condition: every stamp held is counted.
RecentRequestsCountsAll(q, now) == Len(q)

\* sum(1 for req_time in user_queue if current_time - req_time < 86400)
RecentRequests(q, now) ==
    Cardinality({i \in 1..Len(q) : now - q[i] < GlobalStatsHorizon})

RECURSIVE SumRecent(_, _, _)
SumRecent(request_types, S, now) ==
    IF S = {} THEN 0
    ELSE LET c == CHOOSE x \in S : TRUE
         IN RecentRequests(request_types[c], now) + SumRecent(request_types, S \ {c}, now)

RECURSIVE SumRecentUsers(_, _, _)
SumRecentUsers(reg, S, now) ==
    IF S = {} THEN 0
    ELSE LET u == CHOOSE x \in S : TRUE
         IN SumRecent(reg[u], DOMAIN reg[u], now) + SumRecentUsers(reg, S \ {u}, now)

GetGlobalStats(reg, now) ==
    [total_users |-> Cardinality(DOMAIN reg),
     active_users |-> Cardinality({u \in DOMAIN reg :
                        \E c \in DOMAIN reg[u] : RecentRequests(reg[u][c], now) > 0}),
     total_requests_tracked |-> SumRecentUsers(reg, DOMAIN reg, now)]

\* get_global_stats that tidies the registry up before it counts.
get_global_stats_with_cleanup ==
    /\ user_requests' = CleanupOldData(user_requests, clock, 24).reg
    /\ last' = [op |-> "get_global_stats", user |-> "", request_type |-> "",
                ret |-> GetGlobalStats(user_requests', clock)]
    /\ burst' = NoBurst
    /\ UNCHANGED <<clock, pc, current_time, result, handler, gc, user_queue>>

\* Lines 179-202: the registry is read through items() only; no key is
\* looked up, so the defaultdicts create nothing.
get_global_stats ==
    /\ last' = [op |-> "get_global_stats", user |-> "", request_type |-> "",
                ret |-> GetGlobalStats(user_requests, clock)]
    /\ burst' = NoBurst
    /\ UNCHANGED <<user_requests, clock, pc, current_time, result, handler, gc, user_queue>>

(***************************************************************************)
(* The clock and the callers                                               *)
(***************************************************************************)
\* time.time() moves forward to a later instant.
Tick ==
    /\ \E t \in Instants : t > clock /\ clock' = t
    /\ last' = [op |-> "tick", user |-> "", request_type |-> "", ret |-> clock']
    /\ burst' = [burst EXCEPT !.n = 0]
    /\ UNCHANGED <<user_requests, pc, current_time, result, handler, gc, user_queue>>

\* What the callers send: background traffic while few stamps are held, and
\* a burst of calls on one ledger, which goes on however many are held and
\* across clock advances, until another call on the limiter ends it.
Sends(u, c) ==
    \/ TotalTracked(user_requests) <= MaxTracked
    \/ burst.user = u /\ burst.request_type = c

(***************************************************************************)
(* check_rate_limit called from threads                                    *)
(*                                                                         *)
(* The class takes no lock.  Under threads a call can be preempted between *)
(* any two of its statements; each action below is one statement of        *)
(* check_rate_limit(ThreadUser, ThreadType) run by thread t.               *)
(***************************************************************************)
ThreadUser == "A"
ThreadType == "document_analysis"

ThreadQueue == user_requests[ThreadUser][ThreadType]

\* Lines 46-55: the request type is known; read the clock, look the deque up.
t_begin(t) ==
    /\ pc[t] = "begin"
    /\ current_time' = [current_time EXCEPT ![t] = clock]
    /\ user_requests' = Touch(user_requests, ThreadUser, ThreadType)
    /\ pc' = [pc EXCEPT ![t] = "while"]
    /\ UNCHANGED <<clock, last, burst, result, handler, gc, user_queue>>

\* Line 58: the loop condition.
t_while(t) ==
    /\ pc[t] = "while"
    /\ pc' = [pc EXCEPT ![t] =
                IF /\ ThreadQueue # <<>>
                   /\ current_time[t] - Head(ThreadQueue) > limits[ThreadType].time_window
                THEN "popleft" ELSE "if"]
    /\ UNCHANGED <<user_requests, clock, last, burst, current_time, result, handler, gc, user_queue>>

\* Line 59.  popleft on a deque another thread has emptied raises IndexError,
\* which lines 72-74 turn into True.
t_popleft(t) ==
    /\ pc[t] = "popleft"
    /\ IF ThreadQueue = <<>>
       THEN /\ result' = [result EXCEPT ![t] = TRUE]
            /\ pc' = [pc EXCEPT ![t] = "done"]
            /\ UNCHANGED user_requests
       ELSE /\ user_requests' = [user_requests EXCEPT ![ThreadUser][ThreadType] = Tail(@)]
            /\ pc' = [pc EXCEPT ![t] = "while"]
            /\ UNCHANGED result
    /\ UNCHANGED <<clock, last, burst, current_time, handler, gc, user_queue>>

\* Lines 62-64.
t_if(t) ==
    /\ pc[t] = "if"
    /\ IF Len(ThreadQueue) >= limits[ThreadType].max_requests
       THEN /\ result' = [result EXCEPT ![t] = FALSE]
            /\ pc' = [pc EXCEPT ![t] = "done"]
       ELSE /\ pc' = [pc EXCEPT ![t] = "append"]
            /\ UNCHANGED result
    /\ UNCHANGED <<user_requests, clock, last, burst, current_time, handler, gc, user_queue>>

\* Lines 67-70.
t_append(t) ==
    /\ pc[t] = "append"
    /\ user_requests' = [user_requests EXCEPT ![ThreadUser][ThreadType] =
                            Append(@, current_time[t])]
    /\ result' = [result EXCEPT ![t] = TRUE]
    /\ pc' = [pc EXCEPT ![t] = "done"]
    /\ UNCHANGED <<clock, last, burst, current_time, handler, gc, user_queue>>

(***************************************************************************)
(* The handlers of the bot (src/bot/telegram_bot.py)                       *)
(*                                                                         *)
(* handle_text_query and handle_document are coroutines on the one thread  *)
(* of the asyncio event loop.  A task runs from one await to the next      *)
(* without interruption; at an await any other task may run.  Each action  *)
(* below is one such stretch of one task.  handler is the bag of the tasks *)
(* started so far; a task record tells the update it serves, the await it  *)
(* is at, and what it has started: check_rate_limit calls, calls of the    *)
(* Gemini service, file downloads and text extractions.  The outcome of a  *)
(* check_rate_limit call is kept in the task that made it.                 *)
(***************************************************************************)
NewTask(k, u) ==
    [kind |-> k, user |-> u, at |-> "start", admits |-> 0, request_type |-> "",
     admitted |-> FALSE, llm |-> 0, downloads |-> 0, extractions |-> 0]

\* Task r goes on as task r2.
Becomes(r, r2) == handler' = (handler (-) SetToBag({r})) (+) SetToBag({r2})

\* The application hands an update to the handler of its kind: a text
\* message or a document, from a user.  (An update without effective_user,
\* message, text or document makes the handler return at lines 155-156 or
\* 192-193 before it does anything; no task is kept for it.)
dispatch ==
    /\ BagCardinality(handler) < NumHandlers
    /\ \E k \in {"text", "document"}, u \in Users :
           handler' = handler (+) SetToBag({NewTask(k, u)})
    /\ UNCHANGED <<user_requests, clock, last, burst, pc, current_time, result, gc, user_queue>>

\* handle_text_query that calls cleanup_old_data() after its
\* check_rate_limit call.
text_check_with_cleanup(r) ==
    /\ r.kind = "text"
    /\ r.at = "start"
    /\ LET a == CheckRateLimit(user_requests, r.user, "text_query", clock)
       IN /\ user_requests' = CleanupOldData(a.reg, clock, 24).reg
          /\ Becomes(r, [r EXCEPT !.admits = @ + 1, !.request_type = "text_query",
                                  !.admitted = a.ret,
                                  !.at = IF a.ret THEN "typing" ELSE "reply"])
    /\ UNCHANGED <<clock, last, burst, pc, current_time, result, gc, user_queue>>

\* handle_text_query, lines 161-171: check_rate_limit; denied, reply and
\* return; admitted, await send_chat_action.
text_check(r) ==
    /\ r.kind = "text"
    /\ r.at = "start"
    /\ LET a == CheckRateLimit(user_requests, r.user, "text_query", clock)
       IN /\ user_requests' = a.reg
          /\ Becomes(r, [r EXCEPT !.admits = @ + 1, !.request_type = "text_query",
                                  !.admitted = a.ret,
                                  !.at = IF a.ret THEN "typing" ELSE "reply"])
    /\ UNCHANGED <<clock, last, burst, pc, current_time, result, gc, user_queue>>

\* Lines 171-174: send_chat_action is back; call the Gemini service and
\* await it.  (An exception from send_chat_action goes to lines 183-187,
\* the error reply.)
text_typing(r) ==
    /\ r.kind = "text"
    /\ r.at = "typing"
    /\ \/ Becomes(r, [r EXCEPT !.llm = @ + 1, !.at = "llm"])
       \/ Becomes(r, [r EXCEPT !.at = "reply"])
    /\ UNCHANGED <<user_requests, clock, last, burst, pc, current_time, result, gc, user_queue>>

\* Lines 174-180: the answer, or an exception, is back; format and reply.
text_llm(r) ==
    /\ r.kind = "text"
    /\ r.at = "llm"
    /\ Becomes(r, [r EXCEPT !.at = "reply"])
    /\ UNCHANGED <<user_requests, clock, last, burst, pc, current_time, result, gc, user_queue>>

\* handle_document without the return of line 204: a denied upload goes on
\* to the file checks and the download.
document_check_no_return(r) ==
    /\ r.kind = "document"
    /\ r.at = "start"
    /\ LET a == CheckRateLimit(user_requests, r.user, "document_analysis", clock)
       IN /\ user_requests' = a.reg
          /\ \E file_ok \in BOOLEAN :
                 Becomes(r, [r EXCEPT !.admits = @ + 1,
                                     !.request_type = "document_analysis",
                                     !.admitted = a.ret,
                                     !.at = IF file_ok THEN "processing" ELSE "reply"])
    /\ UNCHANGED <<clock, last, burst, pc, current_time, result, gc, user_queue>>

\* handle_document with a check_rate_limit that decides and records
\* nothing.
document_check_without_record(r) ==
    /\ r.kind = "document"
    /\ r.at = "start"
    /\ LET a == CheckRateLimit(user_requests, r.user, "document_analysis", clock)
       IN /\ user_requests' = user_requests
          /\ \E file_ok \in BOOLEAN :
                 Becomes(r, [r EXCEPT !.admits = @ + 1,
                                     !.request_type = "document_analysis",
                                     !.admitted = a.ret,
                                     !.at = IF a.ret /\ file_ok THEN "processing"
                                            ELSE "reply"])
    /\ UNCHANGED <<clock, last, burst, pc, current_time, result, gc, user_queue>>

\* handle_document that takes the stamp back off the deque when it rejects
\* the file at lines 207-218.
document_check_refunds(r) ==
    /\ r.kind = "document"
    /\ r.at = "start"
    /\ LET a == CheckRateLimit(user_requests, r.user, "document_analysis", clock)
       IN \E file_ok \in BOOLEAN :
              /\ user_requests' =
                     IF a.ret /\ ~file_ok
                     THEN Touch(user_requests, r.user, "document_analysis")
                     ELSE a.reg
              /\ Becomes(r, [r EXCEPT !.admits = @ + 1,
                                      !.request_type = "document_analysis",
                                      !.admitted = a.ret,
                                      !.at = IF a.ret /\ file_ok THEN "processing"
                                             ELSE "reply"])
    /\ UNCHANGED <<clock, last, burst, pc, current_time, result, gc, user_queue>>

\* handle_document, lines 198-220: check_rate_limit; denied, reply and
\* return; a file that is not a PDF or is over 10 MB, reply and return;
\* otherwise reply "Processing" and await it.
document_check(r) ==
    /\ r.kind = "document"
    /\ r.at = "start"
    /\ LET a == CheckRateLimit(user_requests, r.user, "document_analysis", clock)
       IN /\ user_requests' = a.reg
          /\ \E file_ok \in BOOLEAN :
                 Becomes(r, [r EXCEPT !.admits = @ + 1,
                                     !.request_type = "document_analysis",
                                     !.admitted = a.ret,
                                     !.at = IF a.ret /\ file_ok THEN "processing"
                                            ELSE "reply"])
    /\ UNCHANGED <<clock, last, burst, pc, current_time, result, gc, user_queue>>

\* Lines 220-234: the replies and get_file are back; start the download.
\* (An exception on the way goes to lines 254-265, the error reply.)
document_processing(r) ==
    /\ r.kind = "document"
    /\ r.at = "processing"
    /\ \/ Becomes(r, [r EXCEPT !.downloads = @ + 1, !.at = "download"])
       \/ Becomes(r, [r EXCEPT !.at = "reply"])
    /\ UNCHANGED <<user_requests, clock, last, burst, pc, current_time, result, gc, user_queue>>

\* Lines 234-240: the file is on disk; extract its text, call the Gemini
\* service and await it.  (extract_text_from_pdf may raise.)
document_download(r) ==
    /\ r.kind = "document"
    /\ r.at = "download"
    /\ \/ Becomes(r, [r EXCEPT !.extractions = @ + 1, !.llm = @ + 1, !.at = "llm"])
       \/ Becomes(r, [r EXCEPT !.extractions = @ + 1, !.at = "reply"])
    /\ UNCHANGED <<user_requests, clock, last, burst, pc, current_time, result, gc, user_queue>>

\* Lines 240-246: the analysis, or an exception, is back; format and send
\* the last reply.
document_llm(r) ==
    /\ r.kind = "document"
    /\ r.at = "llm"
    /\ Becomes(r, [r EXCEPT !.at = "reply"])
    /\ UNCHANGED <<user_requests, clock, last, burst, pc, current_time, result, gc, user_queue>>

\* time.time() moves forward within the hour that follows the start.
TickWithinWindow ==
    /\ \E t \in Instants : t > clock /\ t <= TextTimeWindow /\ clock' = t
    /\ UNCHANGED <<user_requests, last, burst, pc, current_time, result, handler, gc, user_queue>>

(***************************************************************************)
(* cleanup_old_data run beside check_rate_limit calls of other threads     *)
(*                                                                         *)
(* Neither method takes a lock.  Thread t of Callers calls                 *)
(* check_rate_limit(ThreadUserOf(t), ThreadType); its call is cut where it *)
(* has looked its deque up (line 55) and holds a reference to it.  The     *)
(* cleanup_old_data call is cut at the next() of the loop of line 148,     *)
(* after the inner loop of lines 151-158, after lines 161-166, and before  *)
(* lines 169-172.  A deque that cleanup_old_data deletes from the registry *)
(* lives on for the threads that hold it.                                  *)
(***************************************************************************)
ThreadUserOf(t) == IF t % 2 = 1 THEN "A" ELSE "B"

GcIdle ==
    [pc |-> "idle", max_age_hours |-> 0, current_time |-> 0, size |-> 0,
     visited |-> {}, user_id |-> "", types_to_remove |-> {},
     users_to_remove |-> {}, finished |-> FALSE]

AllLinked == [ref |-> [t \in Threads |-> 0], unlinked |-> << >>]

\* The deque of (u, ThreadType) leaves the registry: the threads that hold
\* it go on with it as an object of their own.
Unlink(uq, reg, u) ==
    LET holders == {t \in Threads :
                       pc[t] = "held" /\ uq.ref[t] = 0 /\ ThreadUserOf(t) = u}
    IN IF holders = {}
       THEN uq
       ELSE [ref |-> [t \in Threads |->
                         IF t \in holders THEN Len(uq.unlinked) + 1 ELSE uq.ref[t]],
             unlinked |-> Append(uq.unlinked, Ledger(reg, u, ThreadType))]

RECURSIVE UnlinkAll(_, _, _)
UnlinkAll(uq, reg, S) ==
    IF S = {} THEN uq
    ELSE LET u == CHOOSE x \in S : TRUE
         IN UnlinkAll(Unlink(uq, reg, u), reg, S \ {u})

\* Lines 46-55 of thread t: read the clock, look the deque up.
g_lookup(t) ==
    /\ pc[t] = "begin"
    /\ current_time' = [current_time EXCEPT ![t] = clock]
    /\ user_requests' = Touch(user_requests, ThreadUserOf(t), ThreadType)
    /\ pc' = [pc EXCEPT ![t] = "held"]
    /\ UNCHANGED <<clock, last, burst, result, handler, gc, user_queue>>

\* Lines 58-70 of thread t, on the deque it holds.
g_finish(t) ==
    /\ pc[t] = "held"
    /\ LET n == user_queue.ref[t]
           q == IF n = 0 THEN user_requests[ThreadUserOf(t)][ThreadType]
                ELSE user_queue.unlinked[n]
           a == AdmitQueue(q, current_time[t], limits[ThreadType].max_requests,
                           limits[ThreadType].time_window)
       IN /\ result' = [result EXCEPT ![t] = a.ret]
          /\ IF n = 0
             THEN /\ user_requests' =
                        [user_requests EXCEPT ![ThreadUserOf(t)][ThreadType] = a.queue]
                  /\ UNCHANGED user_queue
             ELSE /\ user_queue' = [user_queue EXCEPT !.unlinked[n] = a.queue]
                  /\ UNCHANGED user_requests
    /\ pc' = [pc EXCEPT ![t] = "done"]
    /\ UNCHANGED <<clock, last, burst, current_time, handler, gc>>

\* next() of the dict iterator of line 148 when the dict has the size it
\* had: a user not yet visited (any of them: the order of the dict is not
\* kept in the model), or the end of the loop.
IterNext(g) ==
    IF DOMAIN user_requests \ g.visited = {}
    THEN {[g EXCEPT !.pc = "remove"]}
    ELSE {[g EXCEPT !.pc = "inner", !.user_id = u, !.visited = @ \cup {u},
                    !.types_to_remove = {}] :
            u \in DOMAIN user_requests \ g.visited}

\* Lines 144-148: read the clock, start the iteration over the registry and
\* take its first user.
gc_begin(max_age_hours) ==
    /\ gc.pc = "idle"
    /\ gc' \in IterNext([gc EXCEPT !.max_age_hours = max_age_hours,
                                   !.current_time = clock,
                                   !.size = Cardinality(DOMAIN user_requests)])
    /\ UNCHANGED <<user_requests, clock, last, burst, pc, current_time, result,
                   handler, user_queue>>

\* Line 148 after a pass of the loop body: RuntimeError ("dictionary changed
\* size during iteration", caught at lines 174-175) when a user has been
\* added since the loop began; otherwise the next user, or the end of the
\* loop.
gc_next ==
    /\ gc.pc = "next"
    /\ IF Cardinality(DOMAIN user_requests) # gc.size
       THEN gc' = [gc EXCEPT !.pc = "done", !.finished = FALSE]
       ELSE gc' \in IterNext(gc)
    /\ UNCHANGED <<user_requests, clock, last, burst, pc, current_time, result,
                   handler, user_queue>>

\* Lines 149-158 for the user at hand: prune every deque, mark the empty.
gc_inner ==
    /\ gc.pc = "inner"
    /\ LET pruned == [c \in DOMAIN user_requests[gc.user_id] |->
                         PruneOld(user_requests[gc.user_id][c], gc.current_time,
                                  gc.max_age_hours * SecondsPerHour)]
       IN /\ user_requests' = [user_requests EXCEPT ![gc.user_id] = pruned]
          /\ gc' = [gc EXCEPT !.pc = "delete",
                              !.types_to_remove =
                                  {c \in DOMAIN pruned : pruned[c] = << >>}]
    /\ UNCHANGED <<clock, last, burst, pc, current_time, result, handler, user_queue>>

\* Lines 161-166: delete the marked deques, whatever they hold by now; mark
\* the user when no deque is left.
gc_delete ==
    /\ gc.pc = "delete"
    /\ LET kept == DOMAIN user_requests[gc.user_id] \ gc.types_to_remove
       IN /\ user_requests' =
                [user_requests EXCEPT ![gc.user_id] = [c \in kept |-> @[c]]]
          /\ gc' = [gc EXCEPT !.pc = "next",
                              !.users_to_remove =
                                  IF kept = {} THEN @ \cup {gc.user_id} ELSE @]
    /\ user_queue' = IF ThreadType \in gc.types_to_remove
                     THEN Unlink(user_queue, user_requests, gc.user_id)
                     ELSE user_queue
    /\ UNCHANGED <<clock, last, burst, pc, current_time, result, handler>>

\* Lines 169-172: delete the marked users, whatever they hold by now.
gc_remove ==
    /\ gc.pc = "remove"
    /\ user_requests' = [u \in DOMAIN user_requests \ gc.users_to_remove |->
                            user_requests[u]]
    /\ user_queue' = UnlinkAll(user_queue, user_requests, gc.users_to_remove)
    /\ gc' = [gc EXCEPT !.pc = "done", !.finished = TRUE]
    /\ UNCHANGED <<clock, last, burst, pc, current_time, result, handler>>

caller_check_rate_limit(u, c) == Sends(u, c) /\ check_rate_limit(u, c)

\* A caller that found the ledger of (u, c) at its cap, has just asked
\* get_reset_time for it and now tries check_rate_limit on it again, with no
\* other call in between.
caller_retry(u, c) ==
    /\ last.op = "get_reset_time"
    /\ last.user = u
    /\ last.request_type = c
    /\ c \in DOMAIN limits
    /\ Len(last.found) >= limits[c].max_requests
    /\ check_rate_limit(u, c)

\* time.time() moves forward while nobody calls the limiter: the record of
\* the last call stays.
Pass ==
    /\ \E t \in Instants : t > clock /\ clock' = t
    /\ UNCHANGED <<user_requests, last, burst, pc, current_time, result, handler, gc, user_queue>>

Init ==
    /\ user_requests = << >>
    /\ clock = 0
    /\ last = [op |-> "init", user |-> "", request_type |-> "", ret |-> 0]
    /\ burst = NoBurst
    /\ pc = [t \in Threads |-> "begin"]
    /\ current_time = [t \in Threads |-> 0]
    /\ result = [t \in Threads |-> FALSE]
    /\ handler = EmptyBag
    /\ gc = GcIdle
    /\ user_queue = AllLinked

Next ==
    \/ \E u \in Users, c \in RequestTypes : caller_check_rate_limit(u, c)
    \/ \E u \in Users, c \in RequestTypes : get_remaining_requests(u, c)
    \/ \E u \in Users, c \in RequestTypes : get_reset_time(u, c)
    \/ \E u \in Users : get_user_stats(u)
    \/ \E h \in MaxAgeHours : cleanup_old_data(h)
    \/ get_global_stats
    \/ Tick

Spec == Init /\ [][Next]_vars

\* Concurrent calls from threads, preempted between statements.
NextThreads ==
    \/ \E t \in Threads : t_begin(t)
    \/ \E t \in Threads : t_while(t)
    \/ \E t \in Threads : t_popleft(t)
    \/ \E t \in Threads : t_if(t)
    \/ \E t \in Threads : t_append(t)
    \/ Tick

SpecThreads == Init /\ [][NextThreads]_vars

(***************************************************************************)
(* Exceptions inside the operations                                        *)
(*                                                                         *)
(* A statement of an operation raises an Exception (a malformed entry of   *)
(* self.limits, an unhashable argument, MemoryError, a failing logger).    *)
(* Each action below is one call in which that happens: the registry is    *)
(* left as the statements before the fault made it, and the call ends as   *)
(* the except clause of the method says, or raises when the method has     *)
(* none.  last.exception tells which.                                      *)
(***************************************************************************)
\* The registry when the fault is before the lookup of line 55 or 87, right
\* after it, or after the pruning loop.
FaultWhilePruning(reg, u, c, now) ==
    IF c \notin DOMAIN limits
    THEN {reg}
    ELSE {reg, Touch(reg, u, c), GetRemainingRequests(reg, u, c, now).reg}

\* check_rate_limit, lines 72-74: except Exception, return True.  The fault
\* is at one of the points above (logger.info of line 63 is the last of
\* them) or at logger.debug of line 69, after the append.
check_rate_limit_except(u, c) ==
    /\ Sends(u, c)
    /\ \E reg \in FaultWhilePruning(user_requests, u, c, clock)
                    \cup {CheckRateLimit(user_requests, u, c, clock).reg} :
           user_requests' = reg
    /\ last' = [op |-> "check_rate_limit", user |-> u, request_type |-> c,
                found |-> Ledger(user_requests, u, c), ret |-> TRUE,
                exception |-> "caught"]
    /\ burst' = [user |-> u, request_type |-> c, n |-> 0]
    /\ UNCHANGED <<clock, pc, current_time, result, handler, gc, user_queue>>

\* get_remaining_requests, lines 95-97: except Exception, return 0.
get_remaining_requests_except(u, c) ==
    /\ \E reg \in FaultWhilePruning(user_requests, u, c, clock) : user_requests' = reg
    /\ last' = [op |-> "get_remaining_requests", user |-> u, request_type |-> c,
                found |-> Ledger(user_requests, u, c), ret |-> 0,
                exception |-> "caught"]
    /\ burst' = NoBurst
    /\ UNCHANGED <<clock, pc, current_time, result, handler, gc, user_queue>>

\* get_reset_time, lines 119-121: except Exception, return datetime.now().
get_reset_time_except(u, c) ==
    /\ \E reg \in {user_requests, GetResetTime(user_requests, u, c, clock).reg} :
           user_requests' = reg
    /\ last' = [op |-> "get_reset_time", user |-> u, request_type |-> c,
                found |-> Ledger(user_requests, u, c),
                ret |-> DatetimeFromTimestamp(clock), exception |-> "caught"]
    /\ burst' = NoBurst
    /\ UNCHANGED <<clock, pc, current_time, result, handler, gc, user_queue>>

\* get_user_stats, lines 123-139, has no try: an exception raised by one of
\* its own statements (the dict literal of lines 131-137, for instance by a
\* policy entry without 'description') leaves the method.  The fault is
\* before the loop, or in its first or its second iteration after the two
\* calls of lines 128-129.
get_user_stats_raises(u) ==
    /\ \E reg \in {user_requests,
                    UserStatsEntry(user_requests, u, "text_query", clock).reg,
                    GetUserStats(user_requests, u, clock).reg} :
           user_requests' = reg
    /\ last' = [op |-> "get_user_stats", user |-> u, request_type |-> "",
                ret |-> "raise", exception |-> "propagated"]
    /\ burst' = NoBurst
    /\ UNCHANGED <<clock, pc, current_time, result, handler, gc, user_queue>>

\* cleanup_old_data, lines 174-175: except Exception, log, return None.  The
\* fault is at time.time() of line 144 or at logger.info of line 172.
cleanup_old_data_except(max_age_hours) ==
    /\ \E reg \in {user_requests,
                    CleanupOldData(user_requests, clock, max_age_hours).reg} :
           user_requests' = reg
    /\ last' = [op |-> "cleanup_old_data", user |-> "", request_type |-> "",
                ret |-> "None", exception |-> "caught"]
    /\ burst' = NoBurst
    /\ UNCHANGED <<clock, pc, current_time, result, handler, gc, user_queue>>

\* get_global_stats, lines 204-206: except Exception, return the zero dict.
get_global_stats_except ==
    /\ last' = [op |-> "get_global_stats", user |-> "", request_type |-> "",
                ret |-> [total_users |-> 0, active_users |-> 0,
                         total_requests_tracked |-> 0],
                exception |-> "caught"]
    /\ burst' = NoBurst
    /\ UNCHANGED <<user_requests, clock, pc, current_time, result, handler, gc, user_queue>>

NextFaults ==
    \/ \E u \in Users, c \in RequestTypes : caller_check_rate_limit(u, c)
    \/ \E u \in Users, c \in RequestTypes : check_rate_limit_except(u, c)
    \/ \E u \in Users, c \in RequestTypes : get_remaining_requests_except(u, c)
    \/ \E u \in Users, c \in RequestTypes : get_reset_time_except(u, c)
    \/ \E u \in Users : get_user_stats_raises(u)
    \/ \E h \in MaxAgeHours : cleanup_old_data_except(h)
    \/ get_global_stats_except
    \/ Tick

SpecFaults == Init /\ [][NextFaults]_vars

\* The handler tasks of the bot on its event loop.
NextHandlers ==
    \/ dispatch
    \/ \E r \in BagToSet(handler) : text_check(r)
    \/ \E r \in BagToSet(handler) : text_typing(r)
    \/ \E r \in BagToSet(handler) : text_llm(r)
    \/ \E r \in BagToSet(handler) : document_check(r)
    \/ \E r \in BagToSet(handler) : document_processing(r)
    \/ \E r \in BagToSet(handler) : document_download(r)
    \/ \E r \in BagToSet(handler) : document_llm(r)
    \/ TickWithinWindow

SpecHandlers == Init /\ [][NextHandlers]_vars

\* Admissions, get_reset_time and the retry that follows it, with the last
\* call remembered while time passes.
NextReset ==
    \/ \E u \in Users, c \in RequestTypes : caller_check_rate_limit(u, c)
    \/ \E u \in Users, c \in RequestTypes : get_reset_time(u, c)
    \/ \E u \in Users, c \in DOMAIN limits : caller_retry(u, c)
    \/ Pass

SpecReset == Init /\ [][NextReset]_vars

\* The bot as shipped, over a run longer than both windows: the handler
\* tasks, and the clock.
NextBot ==
    \/ BagCardinality(handler) < NumUpdates /\ dispatch
    \/ \E r \in BagToSet(handler) : text_check(r)
    \/ \E r \in BagToSet(handler) : text_typing(r)
    \/ \E r \in BagToSet(handler) : text_llm(r)
    \/ \E r \in BagToSet(handler) : document_check(r)
    \/ \E r \in BagToSet(handler) : document_processing(r)
    \/ \E r \in BagToSet(handler) : document_download(r)
    \/ \E r \in BagToSet(handler) : document_llm(r)
    \/ Pass

SpecBot == Init /\ [][NextBot]_vars

\* One cleanup_old_data call beside the check_rate_limit calls of threads,
\* followed until the cleanup_old_data call has returned.
NextCleanup ==
    \/ gc.pc # "done" /\ \E t \in Callers : g_lookup(t)
    \/ gc.pc # "done" /\ \E t \in Callers : g_finish(t)
    \/ \E h \in MaxAgeHours : gc_begin(h)
    \/ gc_next
    \/ gc_inner
    \/ gc_delete
    \/ gc_remove
    \/ gc.pc # "done" /\ Pass

SpecCleanup == Init /\ [][NextCleanup]_vars

(***************************************************************************)
(* Properties                                                              *)
(***************************************************************************)
Recognised == DOMAIN limits

\* The stamps of q that are not older than the window at time now, found by
\* a scan of the whole deque.
RECURSIVE Live(_, _, _)
Live(q, now, time_window) ==
    IF q = <<>> THEN <<>>
    ELSE IF now - Head(q) > time_window
         THEN Live(Tail(q), now, time_window)
         ELSE <<Head(q)>> \o Live(Tail(q), now, time_window)

\* C1 (cap invariant): in every reachable state the ledger of every user and
\* recognised request type holds at most max_requests stamps.
C1_CapInvariant ==
    \A u \in DOMAIN user_requests : \A c \in DOMAIN user_requests[u] :
        c \in Recognised => Len(user_requests[u][c]) <= limits[c].max_requests

\* A text_query ledger is full and a further call on it has just been denied.
C1_Witness ==
    \E u \in Users :
        /\ LastIs("check_rate_limit", u, "text_query")
        /\ last.ret = FALSE
        /\ Len(Ledger(user_requests, u, "text_query")) = TextMaxRequests

\* C3 (admission decision): a check_rate_limit call on a recognised request
\* type at time now drops the stamps older than the window; if at least
\* max_requests remain it returns False and leaves exactly those, otherwise
\* it appends now and returns True.
C3_AdmissionDecision ==
    \A u \in Users, c \in Recognised :
        LastIs("check_rate_limit", u, c) =>
            LET live == Live(last.found, clock, limits[c].time_window)
            IN IF Len(live) >= limits[c].max_requests
               THEN last.ret = FALSE /\ Ledger(user_requests, u, c) = live
               ELSE last.ret = TRUE /\ Ledger(user_requests, u, c) = Append(live, clock)

\* A call found stale and fresh stamps together, dropped the stale ones and
\* admitted.
C3_Witness ==
    \E u \in Users, c \in Recognised :
        /\ LastIs("check_rate_limit", u, c)
        /\ last.ret = TRUE
        /\ Live(last.found, clock, limits[c].time_window) # <<>>
        /\ Live(last.found, clock, limits[c].time_window) # last.found

\* C4 (no phantom consumption): a denied call leaves the ledger with exactly
\* the stamps that survived pruning, and after max_requests or more calls in
\* a row at one instant (15 calls for max_requests = 10) the ledger holds
\* exactly max_requests stamps.
C4_NoPhantomConsumption ==
    \A u \in Users, c \in Recognised :
        LastIs("check_rate_limit", u, c) =>
            /\ last.ret = FALSE =>
                   Ledger(user_requests, u, c) = Live(last.found, clock, limits[c].time_window)
            /\ (burst.user = u /\ burst.request_type = c /\ burst.n >= limits[c].max_requests) =>
                   Len(Ledger(user_requests, u, c)) = limits[c].max_requests

\* The fifteenth call in a row on a text_query ledger: denied, ten stamps held.
C4_Witness ==
    \E u \in Users :
        /\ LastIs("check_rate_limit", u, "text_query")
        /\ burst.n = MaxBurst
        /\ last.ret = FALSE
        /\ Len(Ledger(user_requests, u, "text_query")) = TextMaxRequests

\* Ten stamps, all of instant t.
TenAt(q, t) == Len(q) = TextMaxRequests /\ \A i \in 1..Len(q) : q[i] = t

\* C5 as stated (window correctness): after 10 text_query admissions at time
\* t the 11th at t is denied, and at t + 3600 + 1 exactly one slot is free:
\* get_remaining_requests returns 1.
C5_WindowCorrectnessAsStated ==
    /\ (/\ last.op = "check_rate_limit"
        /\ last.request_type = "text_query"
        /\ TenAt(last.found, clock)) => last.ret = FALSE
    /\ (/\ last.op = "get_remaining_requests"
        /\ last.request_type = "text_query"
        /\ TenAt(last.found, clock - (TextTimeWindow + 1))) => last.ret = 1

\* C5 amended: after 10 text_query admissions at time t the 11th at t is
\* denied, and at t + 3600 + 1 all ten stamps have aged out together, so
\* every slot is free: get_remaining_requests returns 10.
C5_WindowCorrectness ==
    /\ (/\ last.op = "check_rate_limit"
        /\ last.request_type = "text_query"
        /\ TenAt(last.found, clock)) => last.ret = FALSE
    /\ (/\ last.op = "get_remaining_requests"
        /\ last.request_type = "text_query"
        /\ TenAt(last.found, clock - (TextTimeWindow + 1))) => last.ret = TextMaxRequests

\* get_remaining_requests has just found ten stamps of 3601 seconds ago.
C5_Witness ==
    \E u \in Users :
        /\ LastIs("get_remaining_requests", u, "text_query")
        /\ TenAt(last.found, clock - (TextTimeWindow + 1))
        /\ Ledger(user_requests, u, "text_query") = <<>>

HasLedger(reg, u, c) == u \in DOMAIN reg /\ c \in DOMAIN reg[u]

\* What a caller of (u, c) can observe of the ledger: whether it exists, what
\* it holds, the remaining quota and the outcome of an admission.
SameLedger(reg1, reg2, u, c, now) ==
    /\ HasLedger(reg1, u, c) <=> HasLedger(reg2, u, c)
    /\ Ledger(reg1, u, c) = Ledger(reg2, u, c)
    /\ GetRemainingRequests(reg1, u, c, now).ret = GetRemainingRequests(reg2, u, c, now).ret
    /\ CheckRateLimit(reg1, u, c, now).ret = CheckRateLimit(reg2, u, c, now).ret

\* C6 (independence): a check_rate_limit, get_remaining_requests or
\* get_reset_time call for (u, c) changes neither the ledger, nor the
\* remaining quota, nor the admission outcome of any other user in any
\* request type, nor of u in another request type; and it adds or removes
\* no other user.
C6_Independence ==
    [][LET u == last'.user
           c == last'.request_type
       IN (/\ last'.op \in {"check_rate_limit", "get_remaining_requests", "get_reset_time"}
           /\ user_requests' # user_requests) =>
              /\ \A u2 \in Users \ {u} :
                     u2 \in DOMAIN user_requests' <=> u2 \in DOMAIN user_requests
              /\ \A u2 \in Users, c2 \in Recognised :
                     (u2 # u \/ c2 # c) =>
                         SameLedger(user_requests, user_requests', u2, c2, clock)]_vars

\* A call of one user was admitted while the other user holds stamps in the
\* same request type.
C6_Witness ==
    \E u \in Users, c \in Recognised, u2 \in Users :
        /\ u2 # u
        /\ LastIs("check_rate_limit", u, c)
        /\ last.ret = TRUE
        /\ Ledger(user_requests, u2, c) # <<>>

\* C7 (unknown request type fails open): check_rate_limit on a request type
\* that is not in the policy table returns True on every call, and leaves
\* the registry as it was: no user, no ledger and no stamp is added.
C7_UnknownFailOpen ==
    [][\A u \in Users, c \in RequestTypes \ Recognised :
          (last'.op = "check_rate_limit" /\ last'.user = u /\ last'.request_type = c) =>
              /\ last'.ret = TRUE
              /\ user_requests' = user_requests]_vars

\* The fifteenth call in a row on an unknown request type, by a user the
\* registry does not know.
C7_Witness ==
    \E u \in Users, c \in RequestTypes \ Recognised :
        /\ LastIs("check_rate_limit", u, c)
        /\ last.ret = TRUE
        /\ burst.n = MaxBurst
        /\ u \notin DOMAIN user_requests

\* C8 (get_remaining_requests): for a recognised request type the call
\* returns max_requests minus the number of stamps not older than the window
\* at the time of the call, and never less than 0; for any other request
\* type it returns -1.
C8_Remaining ==
    \A u \in Users, c \in RequestTypes :
        LastIs("get_remaining_requests", u, c) =>
            IF c \in Recognised
            THEN /\ last.ret = limits[c].max_requests
                                - Len(Live(last.found, clock, limits[c].time_window))
                 /\ last.ret >= 0
            ELSE last.ret = -1

\* The call found a stamp exactly one window old next to older ones.
C8_Witness ==
    \E u \in Users, c \in Recognised :
        /\ LastIs("get_remaining_requests", u, c)
        /\ last.found # <<>>
        /\ Live(last.found, clock, limits[c].time_window) # last.found
        /\ \E i \in 1..Len(last.found) : clock - last.found[i] = limits[c].time_window

\* C9 (monotone remaining): a check_rate_limit call that finds no stamp older
\* than the window leaves the remaining quota equal to or lower than it was;
\* and get_remaining_requests returns max_requests when every stamp it finds
\* is older than the window.
C9_MonotoneRemaining ==
    [][\A u \in Users, c \in Recognised :
          /\ (/\ last'.op = "check_rate_limit" /\ last'.user = u /\ last'.request_type = c
              /\ Live(Ledger(user_requests, u, c), clock, limits[c].time_window)
                    = Ledger(user_requests, u, c)) =>
                 GetRemainingRequests(user_requests', u, c, clock').ret
                    <= GetRemainingRequests(user_requests, u, c, clock).ret
          /\ (/\ last'.op = "get_remaining_requests" /\ last'.user = u
              /\ last'.request_type = c
              /\ Live(last'.found, clock', limits[c].time_window) = <<>>) =>
                 last'.ret = limits[c].max_requests]_vars

\* get_remaining_requests found a full ledger whose stamps have all aged out.
C9_Witness ==
    \E u \in Users, c \in Recognised :
        /\ LastIs("get_remaining_requests", u, c)
        /\ Len(last.found) = limits[c].max_requests
        /\ Live(last.found, clock, limits[c].time_window) = <<>>
        /\ last.ret = limits[c].max_requests

\* C10 (get_reset_time with no stamp inside the window): whenever the ledger
\* holds no stamp that is inside the window at the time of the call, stale
\* stamps still held included, get_reset_time returns the current time.
C10_ResetTimeNowWhenNoneLive ==
    (/\ last.op = "get_reset_time"
     /\ last.request_type \in Recognised
     /\ Live(last.found, clock, limits[last.request_type].time_window) = <<>>) =>
        last.ret = DatetimeFromTimestamp(clock)

\* The least stamp of a non-empty deque.
Oldest(q) == CHOOSE x \in {q[i] : i \in 1..Len(q)} : \A i \in 1..Len(q) : x <= q[i]

\* C11 (get_reset_time names the instant a slot becomes free): when
\* get_reset_time is called on a full ledger (max_requests stamps, all inside
\* the window) and check_rate_limit on the same ledger is the next call, made
\* at exactly the returned time, then the returned time is the oldest
\* surviving stamp plus the window and that check_rate_limit returns True.
C11_ResetTimeNamesFreeInstant ==
    [][(/\ last.op = "get_reset_time"
        /\ last.request_type \in Recognised
        /\ Len(last.found) = limits[last.request_type].max_requests
        /\ Live(last.found, clock, limits[last.request_type].time_window) = last.found
        /\ clock = last.ret.datetime
        /\ last'.op = "check_rate_limit"
        /\ last'.user = last.user
        /\ last'.request_type = last.request_type) =>
           /\ last.ret = DatetimeFromTimestamp(
                             Oldest(last.found) + limits[last.request_type].time_window)
           /\ last'.ret = TRUE]_vars

\* Every user of the registry holds one document_analysis stamp and nothing
\* else, and the stamp is older than max_age_hours at time now.
OneOldDocumentEach(reg, now, max_age_hours) ==
    /\ DOMAIN reg # {}
    /\ \A u \in DOMAIN reg :
           /\ DOMAIN reg[u] = {"document_analysis"}
           /\ Len(reg[u]["document_analysis"]) = 1
           /\ now - reg[u]["document_analysis"][1] > max_age_hours * SecondsPerHour

\* C12 as stated (garbage collection returns its count): after one admitted
\* document_analysis request for each of N users and a clock advance past
\* max_age, cleanup_old_data removes all N users from the registry and
\* returns N.
C12_CleanupReturnsCountAsStated ==
    [][(/\ last'.op = "cleanup_old_data"
        /\ OneOldDocumentEach(user_requests, clock, last'.max_age_hours)) =>
           /\ user_requests' = << >>
           /\ last'.ret # "None"
           /\ last'.ret = Cardinality(DOMAIN user_requests)]_vars

\* C12 amended: in that case cleanup_old_data removes all N users from the
\* registry and writes N in its log line; it returns None.
C12_CleanupLogsCount ==
    [][(/\ last'.op = "cleanup_old_data"
        /\ OneOldDocumentEach(user_requests, clock, last'.max_age_hours)) =>
           /\ user_requests' = << >>
           /\ last'.logged = Cardinality(DOMAIN user_requests)
           /\ last'.ret = "None"]_vars

\* cleanup_old_data has just emptied the registry and counted every user of
\* the model as removed.
C12_Witness ==
    /\ last.op = "cleanup_old_data"
    /\ last.logged = Cardinality(Users)
    /\ user_requests = << >>

\* Some stamp of user u is no older than max_age_seconds at time now.
HasRecent(reg, u, now, max_age_seconds) ==
    \E c \in DOMAIN reg[u] : \E i \in 1..Len(reg[u][c]) :
        now - reg[u][c][i] <= max_age_seconds

\* C13 (garbage-collection postcondition): when cleanup_old_data(max_age)
\* has run, every ledger left in the registry is non-empty and holds only
\* stamps no older than max_age, every user left has at least one ledger,
\* and every user that had a stamp no older than max_age is still present.
C13_CleanupPostcondition ==
    [][last'.op = "cleanup_old_data" =>
          LET max_age_seconds == last'.max_age_hours * SecondsPerHour
          IN /\ \A u \in DOMAIN user_requests' :
                    /\ DOMAIN user_requests'[u] # {}
                    /\ \A c \in DOMAIN user_requests'[u] :
                           /\ user_requests'[u][c] # << >>
                           /\ \A i \in 1..Len(user_requests'[u][c]) :
                                  clock - user_requests'[u][c][i] <= max_age_seconds
             /\ \A u \in DOMAIN user_requests :
                    HasRecent(user_requests, u, clock, max_age_seconds) =>
                        u \in DOMAIN user_requests']_vars

\* cleanup_old_data has just removed a user and left another, whose ledger
\* it has trimmed or kept.
C13_Witness ==
    /\ last.op = "cleanup_old_data"
    /\ last.logged >= 1
    /\ user_requests # << >>

\* Deque q2 is deque q1 with at most stamps older than the window taken off
\* its front.
OnlyExpiredRemoved(q1, q2, now, time_window) ==
    /\ \E k \in 0..Len(q1) : q2 = SubSeq(q1, k + 1, Len(q1))
    /\ Live(q2, now, time_window) = Live(q1, now, time_window)

\* C14 (get_user_stats is read-only apart from pruning): a get_user_stats(u)
\* call adds no user and no ledger, takes at most expired stamps off the
\* ledgers u already has, leaves every other user as it was, and leaves
\* total_users of get_global_stats unchanged.
C14_UserStatsReadOnly ==
    [][last'.op = "get_user_stats" =>
          /\ DOMAIN user_requests' = DOMAIN user_requests
          /\ \A v \in DOMAIN user_requests :
                 IF v # last'.user
                 THEN user_requests'[v] = user_requests[v]
                 ELSE /\ DOMAIN user_requests'[v] = DOMAIN user_requests[v]
                      /\ \A c \in DOMAIN user_requests[v] :
                             OnlyExpiredRemoved(user_requests[v][c], user_requests'[v][c],
                                                clock, limits[c].time_window)
          /\ GetGlobalStats(user_requests', clock').total_users
                = GetGlobalStats(user_requests, clock).total_users]_vars

\* C15 (fail-open on internal fault): a call in which an exception was
\* raised inside the operation does not raise to its caller;
\* check_rate_limit then returns True, get_remaining_requests returns 0 and
\* get_reset_time returns the current time.
C15_FailOpen ==
    "exception" \in DOMAIN last =>
        /\ last.exception = "caught"
        /\ last.op = "check_rate_limit" => last.ret = TRUE
        /\ last.op = "get_remaining_requests" => last.ret = 0
        /\ last.op = "get_reset_time" => last.ret = DatetimeFromTimestamp(clock)

\* C16 (admission gates costly work): every handler task of a text message
\* or a document upload calls check_rate_limit exactly once, as the first
\* thing it does and with the request type of its kind; it has called the
\* Gemini service only after an admission; and a task whose call returned
\* False has called the Gemini service, downloaded and extracted nothing.
C16_AdmissionGates ==
    \A r \in BagToSet(handler) :
        /\ r.admits = IF r.at = "start" THEN 0 ELSE 1
        /\ r.admits = 1 =>
               r.request_type = IF r.kind = "text" THEN "text_query"
                                ELSE "document_analysis"
        /\ r.llm > 0 => r.admits = 1 /\ r.admitted
        /\ ~r.admitted => r.llm = 0 /\ r.downloads = 0 /\ r.extractions = 0

\* One upload was denied and its handler is at its last reply, while
\* another, admitted, has extracted the text and called the Gemini service.
C16_Witness ==
    \E r, r2 \in BagToSet(handler) :
        /\ r.kind = "document" /\ r.at = "reply" /\ r.admits = 1 /\ ~r.admitted
        /\ r2.kind = "document" /\ r2.admitted /\ r2.llm = 1 /\ r2.extractions = 1

\* Every ledger user u has in reg is empty.
AllEmpty(reg, u) == \A c \in DOMAIN reg[u] : reg[u][c] = << >>

\* C17 (registry lifecycle): the registry starts empty; every user in it
\* has at least one ledger; a user enters it only in a check_rate_limit,
\* get_remaining_requests or get_reset_time call for that user on a
\* recognised request type (get_user_stats makes such calls for its user),
\* which gives the user a ledger; and a user leaves it only in
\* cleanup_old_data, or in a pruning call that has emptied the user's
\* ledgers.
C17_RegistryLifecycle ==
    /\ user_requests = << >>
    /\ [][/\ \A u \in DOMAIN user_requests' : DOMAIN user_requests'[u] # {}
          /\ \A u \in DOMAIN user_requests' \ DOMAIN user_requests :
                 /\ last'.user = u
                 /\ \/ /\ last'.op \in {"check_rate_limit", "get_remaining_requests",
                                         "get_reset_time"}
                       /\ last'.request_type \in Recognised
                       /\ last'.request_type \in DOMAIN user_requests'[u]
                    \/ last'.op = "get_user_stats"
          /\ \A u \in DOMAIN user_requests \ DOMAIN user_requests' :
                 \/ last'.op = "cleanup_old_data"
                 \/ /\ last'.op \in {"check_rate_limit", "get_remaining_requests"}
                    /\ last'.user = u
                    /\ AllEmpty(user_requests, u)]_vars

\* Both users have entered the registry and one of them has left it again:
\* cleanup_old_data has just removed one user, the other holds a stamp.
C17_Witness ==
    /\ last.op = "cleanup_old_data"
    /\ last.logged = 1
    /\ \E u \in Users :
           /\ DOMAIN user_requests = {u}
           /\ ~AllEmpty(user_requests, u)

\* C18 (prune before every access): right after a check_rate_limit,
\* get_remaining_requests or get_reset_time call on a recognised request
\* type at time now, the ledger of the call holds only stamps within
\* [now - time_window, now].
C18_PrunedAfterAccess ==
    (/\ last.op \in {"check_rate_limit", "get_remaining_requests", "get_reset_time"}
     /\ last.request_type \in Recognised) =>
        \A i \in 1..Len(Ledger(user_requests, last.user, last.request_type)) :
            LET stamp == Ledger(user_requests, last.user, last.request_type)[i]
            IN /\ clock - limits[last.request_type].time_window <= stamp
               /\ stamp <= clock

\* C19 (ledger ordering): the clock only moves forward, and in every
\* reachable state every ledger is in non-decreasing stamp order, so that at
\* the current instant and at every later one the prefix trim of lines 58-59
\* leaves exactly the stamps a scan of the whole deque finds unexpired, for
\* either window.
IsSorted(q) == \A i \in 1..(Len(q) - 1) : q[i] <= q[i + 1]

C19_LedgerOrdering ==
    \A u \in DOMAIN user_requests : \A c \in DOMAIN user_requests[u] :
        /\ IsSorted(user_requests[u][c])
        /\ \A now \in Instants : \A c2 \in Recognised :
               now >= clock =>
                   PruneOld(user_requests[u][c], now, limits[c2].time_window)
                       = Live(user_requests[u][c], now, limits[c2].time_window)

\* A check_rate_limit call has just trimmed an expired stamp off the front of
\* a deque, kept a later one and appended its own, later again.
C19_Witness ==
    /\ last.op = "check_rate_limit"
    /\ last.request_type \in Recognised
    /\ last.ret = TRUE
    /\ Len(last.found) >= 2
    /\ Len(Ledger(user_requests, last.user, last.request_type)) >= 2
    /\ Len(Ledger(user_requests, last.user, last.request_type)) <= Len(last.found)
    /\ Head(Ledger(user_requests, last.user, last.request_type)) < clock
    /\ Head(last.found) < Head(Ledger(user_requests, last.user, last.request_type))

\* The handler tasks of user u that have called check_rate_limit with request
\* type c, and those of them it admitted.
Called(u, c) ==
    BagCardinality([r \in {x \in BagToSet(handler) :
                              x.user = u /\ x.request_type = c /\ x.admits > 0}
                       |-> CopiesIn(r, handler)])

Admitted(u, c) ==
    BagCardinality([r \in {x \in BagToSet(handler) :
                              x.user = u /\ x.request_type = c /\ x.admitted}
                       |-> CopiesIn(r, handler)])

Min(a, b) == IF a <= b THEN a ELSE b

\* C20 (cooperative scheduling): handler tasks on one event loop interleave
\* at their awaits only.  Within one window, every ledger stays within its
\* cap, and of the tasks of one user that have called check_rate_limit for
\* one request type exactly max_requests are admitted once that many or
\* more have called (all of them before that), each with one stamp in the
\* ledger; and every step that changes the registry is one whole
\* check_rate_limit call of one task that was at its start.
C20_CooperativeAdmission ==
    /\ [](\A u \in Users : \A c \in Recognised :
             /\ Len(Ledger(user_requests, u, c)) <= limits[c].max_requests
             /\ Admitted(u, c) = Min(Called(u, c), limits[c].max_requests)
             /\ Admitted(u, c) = Len(Ledger(user_requests, u, c)))
    /\ [][user_requests' # user_requests =>
             \E r \in BagToSet(handler) :
                 /\ r.at = "start"
                 /\ user_requests' =
                        CheckRateLimit(user_requests, r.user,
                                       IF r.kind = "text" THEN "text_query"
                                       ELSE "document_analysis", clock).reg
                 /\ \E r2 \in BagToSet(handler') :
                        /\ r2.admitted /\ r2.at # "start"
                        /\ r2.user = r.user /\ r2.kind = r.kind
                        /\ CopiesIn(r2, handler') = CopiesIn(r2, handler) + 1]_vars

\* More uploads of one user than the cap have called check_rate_limit in one
\* window: max_requests of them were admitted and the rest denied.
C20_Witness ==
    \E u \in Users :
        /\ Called(u, "document_analysis") > DocMaxRequests
        /\ Admitted(u, "document_analysis") = DocMaxRequests
        /\ Len(Ledger(user_requests, u, "document_analysis")) = DocMaxRequests

\* C21 (cleanup and the quota): a cleanup_old_data call whose horizon is at
\* least every time_window (the default 24 h) changes, for no user and no
\* recognised request type, at the instant of the call or at any later one,
\* what get_remaining_requests returns, what check_rate_limit returns, or
\* the unexpired stamps of the ledger, on which every later outcome depends.
LongHorizon(max_age_hours) ==
    \A c \in Recognised : max_age_hours * SecondsPerHour >= limits[c].time_window

C21_CleanupKeepsQuota ==
    [][(last'.op = "cleanup_old_data" /\ LongHorizon(last'.max_age_hours)) =>
          \A u \in Users : \A c \in Recognised : \A now \in Instants :
              now >= clock =>
                  /\ GetRemainingRequests(user_requests', u, c, now).ret
                        = GetRemainingRequests(user_requests, u, c, now).ret
                  /\ CheckRateLimit(user_requests', u, c, now).ret
                        = CheckRateLimit(user_requests, u, c, now).ret
                  /\ Live(Ledger(user_requests', u, c), now, limits[c].time_window)
                        = Live(Ledger(user_requests, u, c), now, limits[c].time_window)]_vars

\* cleanup_old_data(24) has just removed a user and has kept an upload stamp
\* that is exactly one day old, which still counts against the quota.
C21_Witness ==
    /\ last.op = "cleanup_old_data"
    /\ last.max_age_hours = 24
    /\ last.logged >= 1
    /\ \E u \in DOMAIN user_requests :
           /\ "document_analysis" \in DOMAIN user_requests[u]
           /\ Head(user_requests[u]["document_analysis"]) = clock - DocTimeWindow
           /\ GetRemainingRequests(user_requests, u, "document_analysis", clock).ret
                 < DocMaxRequests

\* C22 (get_user_stats consistency): for every recognised request type the
\* entry get_user_stats(u) returns has limit = max_requests; remaining as
\* get_remaining_requests(u, c) returns at that instant; used = limit -
\* remaining = the length of the pruned deque, within 0..limit; reset_time
\* as get_reset_time(u, c) returns on the deque so pruned, which is also what
\* it returns right after the call; and reset_time is the current time
\* whenever used is 0.
C22_UserStatsConsistent ==
    [][last'.op = "get_user_stats" =>
          \A c \in Recognised :
              /\ last'.ret[c].limit = limits[c].max_requests
              /\ last'.ret[c].remaining
                    = GetRemainingRequests(user_requests, last'.user, c, clock).ret
              /\ last'.ret[c].used = last'.ret[c].limit - last'.ret[c].remaining
              /\ last'.ret[c].used
                    = Len(PruneOld(Ledger(user_requests, last'.user, c), clock,
                                   limits[c].time_window))
              /\ last'.ret[c].used >= 0
              /\ last'.ret[c].used <= last'.ret[c].limit
              /\ last'.ret[c].reset_time
                    = ResetTimeQueue(PruneOld(Ledger(user_requests, last'.user, c),
                                              clock, limits[c].time_window),
                                     clock, limits[c].time_window)
              /\ last'.ret[c].reset_time
                    = GetResetTime(user_requests', last'.user, c, clock).ret
              /\ last'.ret[c].used = 0 =>
                    last'.ret[c].reset_time = DatetimeFromTimestamp(clock)]_vars

\* get_user_stats, called after the text window of the start has gone by,
\* has reported no text query in use, with the current time as reset time,
\* and an upload in use, with a reset time one day after it.
C22_Witness ==
    /\ last.op = "get_user_stats"
    /\ clock > TextTimeWindow
    /\ last.ret["text_query"].used = 0
    /\ last.ret["text_query"].reset_time = DatetimeFromTimestamp(clock)
    /\ last.ret["document_analysis"].used >= 1
    /\ last.ret["document_analysis"].reset_time
          = DatetimeFromTimestamp(
                Head(user_requests[last.user]["document_analysis"]) + DocTimeWindow)

\* The positions <<u, c, i>> of the stamps held that are less than 24 hours
\* old at time now.
RecentStamps(reg, now) ==
    UNION {UNION {{<<u, c, i>> : i \in {j \in 1..Len(reg[u][c]) :
                                            now - reg[u][c][j] < GlobalStatsHorizon}} :
                  c \in DOMAIN reg[u]} :
           u \in DOMAIN reg}

\* C23 (get_global_stats values): total_users is the number of users in the
\* registry, active_users the number of users with at least one stamp of
\* the last 24 hours (less than 86400 seconds old, line 193) in any ledger,
\* total_requests_tracked the number of such stamps over all ledgers; and
\* in every state the figures of the registry have active_users <=
\* total_users and active_users <= total_requests_tracked.
C23_GlobalStatsValues ==
    /\ last.op = "get_global_stats" =>
           /\ last.ret.total_users = Cardinality(DOMAIN user_requests)
           /\ last.ret.active_users
                 = Cardinality({x[1] : x \in RecentStamps(user_requests, clock)})
           /\ last.ret.total_requests_tracked
                 = Cardinality(RecentStamps(user_requests, clock))
    /\ GetGlobalStats(user_requests, clock).active_users
          <= GetGlobalStats(user_requests, clock).total_users
    /\ GetGlobalStats(user_requests, clock).active_users
          <= GetGlobalStats(user_requests, clock).total_requests_tracked

\* get_global_stats has just counted two users, one of them active, and has
\* left a stamp that is held but older than a day out of its total.
C23_Witness ==
    /\ last.op = "get_global_stats"
    /\ last.ret.total_users = 2
    /\ last.ret.active_users = 1
    /\ last.ret.total_requests_tracked >= 1
    /\ TotalTracked(user_requests) > last.ret.total_requests_tracked

\* C24 (check_rate_limit agrees with get_remaining_requests): for every
\* check_rate_limit call on a recognised request type, take the
\* get_remaining_requests call right before it and the one right after it at
\* the same instant.  The call before does not change what check_rate_limit
\* does; check_rate_limit returns True exactly when the call before returns
\* more than 0; after True the call after returns one less than the call
\* before; after False it returns 0.
C24_AdmitAgreesWithRemaining ==
    [][(last'.op = "check_rate_limit" /\ last'.request_type \in Recognised) =>
          LET u == last'.user
              c == last'.request_type
              before == GetRemainingRequests(user_requests, u, c, clock)
              admit == CheckRateLimit(before.reg, u, c, clock)
              after == GetRemainingRequests(user_requests', u, c, clock)
          IN /\ admit.ret = last'.ret
             /\ admit.reg = user_requests'
             /\ last'.ret = (before.ret > 0)
             /\ last'.ret => after.ret = before.ret - 1
             /\ ~last'.ret => after.ret = 0
             /\ (last.op = "get_remaining_requests" /\ last.user = u
                    /\ last.request_type = c) => last.ret = before.ret]_vars

\* A check_rate_limit call found a deque full of stamps exactly one window
\* old and denied, and get_remaining_requests would now return 0.
C24_Witness ==
    /\ last.op = "check_rate_limit"
    /\ last.request_type \in Recognised
    /\ last.ret = FALSE
    /\ Len(last.found) = limits[last.request_type].max_requests
    /\ clock - Head(last.found) = limits[last.request_type].time_window
    /\ GetRemainingRequests(user_requests, last.user, last.request_type, clock).ret = 0

\* q1 is the front part of q2.
IsPrefix(q1, q2) == Len(q1) <= Len(q2) /\ SubSeq(q2, 1, Len(q1)) = q1

\* C25 (an admitted slot is not given back): no step of a handler takes a
\* stamp that has not aged out off a ledger, so every task check_rate_limit
\* admitted has its stamp in the ledger whatever became of it: answered,
\* rejected at the file checks, or failed in the download, the extraction
\* or the call of the Gemini service; and get_remaining_requests counts
\* every one of them, so a rejected or failed upload uses one of the
\* DocMaxRequests slots of the day.
C25_SlotNotGivenBack ==
    /\ [](\A u \in Users : \A c \in Recognised :
             /\ Admitted(u, c) <= Len(Ledger(user_requests, u, c))
             /\ GetRemainingRequests(user_requests, u, c, clock).ret
                   <= limits[c].max_requests - Admitted(u, c))
    /\ [][\A u \in Users : \A c \in Recognised :
             IsPrefix(Live(Ledger(user_requests, u, c), clock', limits[c].time_window),
                      Ledger(user_requests', u, c))]_vars

\* Three uploads of one user were admitted and then rejected or failed
\* before the Gemini service was called; they hold the three slots, and a
\* fourth upload of that user has been denied.
C25_Witness ==
    \E u \in Users :
        /\ BagCardinality([r \in {x \in BagToSet(handler) :
                                   /\ x.user = u /\ x.kind = "document"
                                   /\ x.admitted /\ x.at = "reply" /\ x.llm = 0}
                              |-> CopiesIn(r, handler)]) = DocMaxRequests
        /\ \E r \in BagToSet(handler) :
               r.user = u /\ r.kind = "document" /\ r.admits = 1 /\ ~r.admitted
        /\ Len(Ledger(user_requests, u, "document_analysis")) = DocMaxRequests
        /\ GetRemainingRequests(user_requests, u, "document_analysis", clock).ret = 0

\* C26 (cleanup beside admissions): when a cleanup_old_data call that ran
\* beside check_rate_limit calls ends, it has finished its pass over the
\* users, and every stamp a check_rate_limit call has appended and returned
\* True for, and that is no older than max_age at the time of the cleanup,
\* is in the ledger of its user.
C26_CleanupLosesNoStamp ==
    [][(gc.pc # "done" /\ gc'.pc = "done") =>
          /\ gc'.finished
          /\ \A t \in Callers :
                 (/\ pc[t] = "done" /\ result[t]
                  /\ gc.current_time - current_time[t]
                        <= gc.max_age_hours * SecondsPerHour) =>
                     \E i \in 1..Len(Ledger(user_requests', ThreadUserOf(t), ThreadType)) :
                         Ledger(user_requests', ThreadUserOf(t), ThreadType)[i]
                             = current_time[t]]_vars

\* C27 (the registry of the bot never shrinks): in the bot as shipped no
\* step takes a user, or a ledger of a user, out of the registry, and every
\* user that has sent a text message or a document that reached
\* check_rate_limit is in the registry from then on.
C27_RegistryNeverShrinks ==
    /\ [][/\ DOMAIN user_requests \subseteq DOMAIN user_requests'
           /\ \A u \in DOMAIN user_requests :
                  DOMAIN user_requests[u] \subseteq DOMAIN user_requests'[u]]_vars
    /\ [](\A r \in BagToSet(handler) :
             r.admits > 0 =>
                 /\ r.user \in DOMAIN user_requests
                 /\ r.request_type \in DOMAIN user_requests[r.user])

\* More than a day after a user's only message, answered long ago, the user
\* is still in the registry, with the stamp of that message.
C27_Witness ==
    /\ clock > DocTimeWindow
    /\ \E u \in DOMAIN user_requests :
           /\ \A c \in DOMAIN user_requests[u] :
                  /\ user_requests[u][c] # << >>
                  /\ \A i \in 1..Len(user_requests[u][c]) :
                         clock - user_requests[u][c][i] > DocTimeWindow
           /\ \E r \in BagToSet(handler) :
                  r.user = u /\ r.kind = "text" /\ r.admitted /\ r.at = "reply"

\* C28 (get_global_stats is a pure read): a get_global_stats call leaves the
\* registry as it was (no user, ledger or stamp added or removed, nothing
\* pruned), and a second call at the same instant returns the same three
\* numbers.
C28_GlobalStatsPureRead ==
    [][last'.op = "get_global_stats" =>
          /\ user_requests' = user_requests
          /\ clock' = clock
          /\ GetGlobalStats(user_requests', clock') = last'.ret
          /\ last.op = "get_global_stats" => last'.ret = last.ret]_vars

\* get_global_stats has just run on a registry that holds a deque emptied
\* by an earlier call and a stamp more than a day old, and both are still
\* there.
C28_Witness ==
    /\ last.op = "get_global_stats"
    /\ \E u \in DOMAIN user_requests : \E c \in DOMAIN user_requests[u] :
           user_requests[u][c] = << >>
    /\ \E u \in DOMAIN user_requests : \E c \in DOMAIN user_requests[u] :
           /\ user_requests[u][c] # << >>
           /\ clock - Head(user_requests[u][c]) > GlobalStatsHorizon

\* C2 (concurrent admission): when more than three check_rate_limit calls on
\* one document_analysis ledger, empty at the start, have all read the same
\* time and have all returned, exactly three of them returned True.
C2_ConcurrentAdmission ==
    (/\ \A t \in Threads : pc[t] = "done"
     /\ \A t \in Threads : current_time[t] = current_time[1]) =>
        Cardinality({t \in Threads : result[t]}) = DocMaxRequests

====
